---- MODULE Spec2Model ----
(***************************************************************************)
(* Model of rss_parcer.py: the pure function rss_parser (XML tree ->       *)
(* text lines or JSON) and the command-line driver main.                    *)
(*                                                                          *)
(* Conventions.                                                             *)
(*  - A Python str is a sequence of tokens (each token a short piece of    *)
(*    text); "" is << >>; concatenation is \o.                            *)
(*  - An Optional value is a sequence of length 0 (None) or 1 (the value). *)
(*  - An XML element is [tag, text, kids]: text is Optional str (the       *)
(*    ElementTree parser gives None for an element without text), kids    *)
(*    the child elements in document order.                                *)
(*  - A Python dict is a function whose DOMAIN is the set of its keys.     *)
(***************************************************************************)
EXTENDS Integers, Sequences, FiniteSets, TLC

VARIABLES argv, pc, xml, result, stdout, log, status

vars == <<argv, pc, xml, result, stdout, log, status>>

-----------------------------------------------------------------------------
(* Bounds of the input space *)

MaxItems == 3
MaxItemKids == 2
MaxChannelFields == 2
MaxRootKids == 2
MaxLimit == 3

-----------------------------------------------------------------------------
(* Python values *)

None == << >>
Some(v) == <<v>>

Min(a, b) == IF a < b THEN a ELSE b
Max(a, b) == IF a > b THEN a ELSE b

\* bool(x) of an Optional[str]: None and "" are falsy
Truthy(opt) == opt # None /\ opt[1] # << >>

\* `x or ''` for an Optional[str]
OrEmpty(opt) == IF Truthy(opt) THEN opt[1] ELSE << >>

\* sep.join(strs) for a sequence of str
RECURSIVE Join(_, _)
Join(strs, sep) ==
    IF Len(strs) = 0 THEN << >>
    ELSE IF Len(strs) = 1 THEN strs[1]
    ELSE strs[1] \o sep \o Join(Tail(strs), sep)

\* no decoding at all
\* html.unescape: one pass over the text, each character reference replaced
HtmlUnescapeTok(t) ==
    CASE t = "&amp;" -> "&"
      [] t = "&lt;" -> "<"
      [] t = "&quot;" -> "\""
      [] OTHER -> t

\* no decoding at all
HtmlUnescapeVerbatim(s) == s

HtmlUnescape(s) == [i \in 1..Len(s) |-> HtmlUnescapeTok(s[i])]

\* json.dumps of a str: quotes and backslashes are escaped
JsonEscapeTok(t) ==
    CASE t = "\"" -> "\\\""
      [] t = "\\" -> "\\\\"
      [] OTHER -> t

JsonEscape(s) == [i \in 1..Len(s) |-> JsonEscapeTok(s[i])]

\* str.capitalize(): first character upper-cased, all the others lower-cased
Capitalize(field) ==
    CASE field = "lastBuildDate" -> "Lastbuilddate"
      [] field = "pubDate" -> "Pubdate"
      [] field = "language" -> "Language"
      [] field = "managingEditor" -> "Managingeditor"
      [] OTHER -> field

\* d[k] = v on a dict
SetItem(d, k, v) == [x \in (DOMAIN d) \cup {k} |-> IF x = k THEN v ELSE d[x]]

\* items[-limit:]: the last items instead of the first
SliceTail(items, limit) ==
    IF limit >= 0 THEN SubSeq(items, Len(items) - Min(limit, Len(items)) + 1, Len(items))
    ELSE SubSeq(items, 1 - limit, Len(items))

\* items[:limit] for an int limit (a negative limit counts from the end)
Slice(items, limit) ==
    IF limit >= 0 THEN SubSeq(items, 1, Min(limit, Len(items)))
    ELSE SubSeq(items, 1, Max(0, Len(items) + limit))

-----------------------------------------------------------------------------
(* xml.etree.ElementTree *)

\* a search of the whole subtree in document order, as find('.//' + tag)
RECURSIVE FindDeep(_, _)
FindDeep(el, tag) ==
    LET hits == {i \in 1..Len(el.kids) :
                    el.kids[i].tag = tag \/ FindDeep(el.kids[i], tag) # << >>}
    IN  IF hits = {} THEN << >>
        ELSE LET i == CHOOSE h \in hits : \A k \in hits : h <= k
             IN  IF el.kids[i].tag = tag THEN <<el.kids[i]>>
                 ELSE FindDeep(el.kids[i], tag)

\* the first child whatever its tag
FindFirstChild(el, tag) ==
    IF el.kids = << >> THEN << >> ELSE <<el.kids[1]>>

\* Element.find(tag): the first DIRECT child with that tag, or None
Find(el, tag) ==
    LET hits == SelectSeq(el.kids, LAMBDA k : k.tag = tag)
    IN  IF hits = << >> THEN None ELSE Some(hits[1])

\* Element.findall(tag): all direct children with that tag, in document order
FindAll(el, tag) == SelectSeq(el.kids, LAMBDA k : k.tag = tag)

\* Element.findtext(tag): None when no child matches, otherwise the text of
\* the first match, with "" standing for a match that has no text
FindText(el, tag) ==
    LET hit == Find(el, tag)
    IN  IF hit = None THEN None
        ELSE IF hit[1].text = None THEN Some(<< >>)
        ELSE hit[1].text

-----------------------------------------------------------------------------
(* rss_parser *)

Raise(exc, msg) == [kind |-> "raise", exc |-> exc, msg |-> msg]
Return(value) == [kind |-> "return", value |-> value]

MissingChannelMsg == <<"Invalid RSS format: missing channel element">>

OptionalFields == <<"lastBuildDate", "pubDate", "language", "managingEditor">>
TextFields == <<"LastBuildDate", "PubDate", "Language", "ManagingEditor", "Categories">>
ItemKeys == <<"Title", "Author", "PubDate", "Link", "Category", "Description">>
OutputKeys == <<"title", "link", "description", "items">>

\* lines 38-42
BaseFeedInfo(channel) ==
    [Feed |-> OrEmpty(FindText(channel, "title")),
     Link |-> OrEmpty(FindText(channel, "link")),
     Description |-> OrEmpty(FindText(channel, "description"))]

\* lines 45-48: the loop over the optional channel fields
RECURSIVE ExtractOptional(_, _, _)
ExtractOptional(channel, fields, feed_info) ==
    IF fields = << >> THEN feed_info
    ELSE LET value == FindText(channel, Head(fields))
         IN  ExtractOptional(channel, Tail(fields),
                 IF Truthy(value)
                 THEN SetItem(feed_info, Capitalize(Head(fields)), value[1])
                 ELSE feed_info)

\* line 51, the list comprehension: category.text of every channel category
CategoryTexts(channel) ==
    LET cats == FindAll(channel, "category")
    IN  [i \in 1..Len(cats) |-> cats[i].text]

\* line 51: str.join raises TypeError on an element that is not a str
JoinRaises(texts) == \E i \in 1..Len(texts) : texts[i] = None

\* lines 51-53
ExtractCategories(channel, feed_info) ==
    LET texts == CategoryTexts(channel)
        categories == Join([i \in 1..Len(texts) |-> texts[i][1]], <<", ">>)
    IN  IF categories # << >> THEN SetItem(feed_info, "Categories", categories)
        ELSE feed_info

\* lines 58-65
ItemInfo(item) ==
    [Title |-> OrEmpty(FindText(item, "title")),
     Author |-> OrEmpty(FindText(item, "author")),
     PubDate |-> OrEmpty(FindText(item, "pubDate")),
     Link |-> OrEmpty(FindText(item, "link")),
     Category |-> OrEmpty(FindText(item, "category")),
     Description |-> OrEmpty(FindText(item, "description"))]

\* lines 56-66
ExtractItems(channel) ==
    LET els == FindAll(channel, "item")
    IN  [i \in 1..Len(els) |-> ItemInfo(els[i])]

\* lines 69-70
ApplyLimit(items, limit) ==
    IF limit # None THEN Slice(items, limit[1]) ELSE items

\* the whole feed_info dict with the items added to it
OutputDictAll(feed_info, items) ==
    [k \in (DOMAIN feed_info) \cup {"items"} |->
        IF k = "items" THEN items ELSE feed_info[k]]

\* lines 74-79
OutputDict(feed_info, items) ==
    [title |-> feed_info["Feed"],
     link |-> feed_info["Link"],
     description |-> feed_info["Description"],
     items |-> items]

\* json.dumps of a str value
JsonString(s) == [type |-> "string", enc |-> JsonEscape(s)]

\* The keys of dict d in insertion order: those of `keys` that d has, then
\* any further key of d
RECURSIVE SetToSeq(_)
SetToSeq(S) ==
    IF S = {} THEN << >>
    ELSE LET x == CHOOSE y \in S : TRUE IN <<x>> \o SetToSeq(S \ {x})

KeyOrder(d, keys) ==
    SelectSeq(keys, LAMBDA k : k \in DOMAIN d)
        \o SetToSeq((DOMAIN d) \ {keys[i] : i \in 1..Len(keys)})

\* json.dumps of a dict of str: one member per key of the dict
JsonObject(d, keys) ==
    LET ks == KeyOrder(d, keys)
    IN  [i \in 1..Len(ks) |-> <<ks[i], JsonString(d[ks[i]])>>]

\* line 80: json.dumps(output): one member per key of the top-level dict,
\* every str escaped, items an array of objects
JsonDumps(output, keys) ==
    LET ks == KeyOrder(output, keys)
    IN  [i \in 1..Len(ks) |->
            <<ks[i],
              IF ks[i] = "items"
              THEN [type |-> "array",
                    elems |-> [n \in 1..Len(output["items"]) |->
                                  JsonObject(output["items"][n], ItemKeys)]]
              ELSE JsonString(output[ks[i]])>>]

\* lines 83-84
HeaderLines(feed_info) ==
    << <<"Feed: ">> \o HtmlUnescape(feed_info["Feed"]),
       <<"Link: ">> \o feed_info["Link"],
       <<"Description: ">> \o HtmlUnescape(feed_info["Description"]) >>

\* lines 86-88
RECURSIVE FieldLines(_, _)
FieldLines(feed_info, fields) ==
    IF fields = << >> THEN << >>
    ELSE (IF Head(fields) \in DOMAIN feed_info
          THEN << <<Head(fields), ": ">> \o feed_info[Head(fields)] >>
          ELSE << >>)
         \o FieldLines(feed_info, Tail(fields))

\* lines 91-96
ItemLines(item) ==
    << <<"\nTitle: ">> \o HtmlUnescape(item["Title"]),
       <<"Author: ">> \o item["Author"],
       <<"PubDate: ">> \o item["PubDate"],
       <<"Link: ">> \o item["Link"],
       <<"Category: ">> \o item["Category"],
       <<"Description: ">> \o HtmlUnescape(item["Description"]) >>

\* lines 90-96
RECURSIVE AllItemLines(_)
AllItemLines(items) ==
    IF items = << >> THEN << >>
    ELSE ItemLines(Head(items)) \o AllItemLines(Tail(items))

\* lines 83-98
TextOutput(feed_info, items) ==
    HeaderLines(feed_info) \o FieldLines(feed_info, TextFields) \o AllItemLines(items)

\* lines 31-98: the body of the try block
TryBody(x, limit, json) ==
    IF ~x.wellformed THEN Raise("ParseError", <<"not well-formed">>)
    ELSE
    LET channel == Find(x.root, "channel")
    IN  IF channel = None THEN Raise("ValueError", MissingChannelMsg)
        ELSE IF JoinRaises(CategoryTexts(channel[1]))
        THEN Raise("TypeError", <<"sequence item: expected str instance, NoneType found">>)
        ELSE
        LET feed_info == ExtractCategories(channel[1],
                             ExtractOptional(channel[1], OptionalFields,
                                             BaseFeedInfo(channel[1])))
            items == ApplyLimit(ExtractItems(channel[1]), limit)
        IN  IF json
            THEN Return(JsonDumps(OutputDict(feed_info, items), OutputKeys))
            ELSE Return(TextOutput(feed_info, items))

\* `except ValueError`
CaughtValueError(exc) == exc = "ValueError"

\* line 100: which exception classes `except Exception` catches
Caught(exc) == exc \in {"ParseError", "ValueError", "TypeError"}

\* lines 30-101
rss_parser(x, limit, json) ==
    LET r == TryBody(x, limit, json)
    IN  IF r.kind = "raise" /\ Caught(r.exc)
        THEN [kind |-> "raise", exc |-> "UnhandledException",
              cause |-> [exc |-> r.exc, msg |-> r.msg]]
        ELSE r

-----------------------------------------------------------------------------
(* The documents and arguments the model is run on *)

SeqsUpTo(S, n) == UNION {[1..k -> S] : k \in 0..n}

El(tag, text, kids) == [tag |-> tag, text |-> text, kids |-> kids]

PlainText == Some(<<"a">>)
EntityText == Some(<<"&lt;", "\"">>)
Texts == {None, PlainText, EntityText}

ItemLeafTags == {"title", "author", "pubDate", "link", "category", "description"}
ChannelLeafTags == {"title", "link", "description", "lastBuildDate", "pubDate",
                    "language", "managingEditor", "category"}

Leaves(tags, texts) == {El(t, x, << >>) : t \in tags, x \in texts}

Rss(channelKids) ==
    [wellformed |-> TRUE,
     root |-> El("rss", None, <<El("channel", None, channelKids)>>)]

\* feeds with up to MaxItems items among a few channel fields
SimpleItems ==
    {El("item", None, kids) : kids \in SeqsUpTo(Leaves({"title"}, {PlainText, EntityText}), 1)}

DocsItems ==
    {Rss(kids) : kids \in SeqsUpTo(SimpleItems \cup Leaves({"title"}, {EntityText})
                                                \cup Leaves({"language", "category"}, {PlainText}),
                                   MaxItems)}

\* feeds with one item of up to MaxItemKids children
DocsItemShape ==
    {Rss(<<El("item", None, kids)>>) : kids \in SeqsUpTo(Leaves(ItemLeafTags, Texts), MaxItemKids)}

\* feeds with up to MaxChannelFields channel fields
DocsChannelFields ==
    {Rss(kids) : kids \in SeqsUpTo(Leaves(ChannelLeafTags, Texts), MaxChannelFields)}

\* documents with the channel at the root, below it, deeper, or nowhere
SomeChannels ==
    {El("channel", None, << >>),
     El("channel", None, <<El("item", None, <<El("title", PlainText, << >>)>>)>>)}

RootKids ==
    SomeChannels
      \cup {El("wrap", None, kids) : kids \in SeqsUpTo({El("channel", None, <<El("title", PlainText, << >>)>>)}, 1)}
      \cup {El("title", PlainText, << >>)}

DocsStructure ==
    {[wellformed |-> TRUE, root |-> El(t, None, kids)] :
        t \in {"rss", "channel"}, kids \in SeqsUpTo(RootKids, MaxRootKids)}

\* a text that ElementTree.fromstring rejects
Malformed == [wellformed |-> FALSE, root |-> El("", None, << >>)]

Docs == DocsItems \cup DocsItemShape \cup DocsChannelFields \cup DocsStructure \cup {Malformed}

Limits == {None} \cup {Some(n) : n \in (0 - MaxLimit)..MaxLimit}

Sources == {None, Some(<< >>), Some(<<"http://feed">>)}

-----------------------------------------------------------------------------
(* main *)

Init ==
    /\ argv \in [source : Sources, limit : Limits, json : BOOLEAN]
    /\ pc = "args"
    /\ xml = None
    /\ result = None
    /\ stdout = None
    /\ log = << >>
    /\ status = None

\* lines 121-126: no source given: parser.error prints the usage and exits
\* the interpreter with status 2; the `return 1` after it is never reached
ParseArgsError ==
    /\ pc = "args"
    /\ ~Truthy(argv.source)
    /\ pc' = "done"
    /\ status' = Some([how |-> "SystemExit", code |-> 2])
    /\ UNCHANGED <<argv, xml, result, stdout, log>>

\* lines 121-124: a source was given
ParseArgsOk ==
    /\ pc = "args"
    /\ Truthy(argv.source)
    /\ pc' = "fetch"
    /\ UNCHANGED <<argv, xml, result, stdout, log, status>>

\* lines 128-132: the request succeeds with some document as its text
FetchOk ==
    /\ pc = "fetch"
    /\ \E d \in Docs : xml' = Some(d)
    /\ pc' = "parse"
    /\ UNCHANGED <<argv, result, stdout, log, status>>

\* lines 133-136: the request raises requests.RequestException
FetchFail ==
    /\ pc = "fetch"
    /\ log' = Append(log, "Error while fetching RSS feed")
    /\ status' = Some([how |-> "return", code |-> 1])
    /\ pc' = "done"
    /\ UNCHANGED <<argv, xml, result, stdout>>

\* lines 138-145: rss_parser returns, the output is printed
ParseAndPrint ==
    /\ pc = "parse"
    /\ LET r == rss_parser(xml[1], argv.limit, argv.json)
       IN  /\ r.kind = "return"
           /\ result' = Some(r)
           /\ stdout' = Some(IF argv.json THEN r.value ELSE Join(r.value, <<"\n">>))
    /\ status' = Some([how |-> "return", code |-> 0])
    /\ pc' = "done"
    /\ UNCHANGED <<argv, xml, log>>

\* lines 138-140, 146-149: rss_parser raises, the error is logged
ParseFail ==
    /\ pc = "parse"
    /\ LET r == rss_parser(xml[1], argv.limit, argv.json)
       IN  /\ r.kind = "raise"
           /\ result' = Some(r)
    /\ log' = Append(log, "Unhandled exception")
    /\ status' = Some([how |-> "return", code |-> 1])
    /\ pc' = "done"
    /\ UNCHANGED <<argv, xml, stdout>>

Next ==
    \/ ParseArgsError
    \/ ParseArgsOk
    \/ FetchOk
    \/ FetchFail
    \/ ParseAndPrint
    \/ ParseFail

Spec == Init /\ [][Next]_vars

TypeOK ==
    /\ pc \in {"args", "fetch", "parse", "done"}
    /\ xml = None \/ xml[1] \in Docs
    /\ result = None \/ result[1].kind \in {"return", "raise"}

-----------------------------------------------------------------------------
(* Vocabulary of the properties: the document read directly, and the       *)
(* printed result read back                                                 *)

Ran == result # None
Returned == Ran /\ result[1].kind = "return"
Raised == Ran /\ result[1].kind = "raise"
TextMode == Returned /\ ~argv.json
JsonMode == Returned /\ argv.json

Root == xml[1].root
WellFormed == xml # None /\ xml[1].wellformed

\* positions of the children of el that carry the tag
Positions(el, tag) == {i \in 1..Len(el.kids) : el.kids[i].tag = tag}
FirstPos(el, tag) == CHOOSE i \in Positions(el, tag) : \A k \in Positions(el, tag) : i <= k

\* the text of the first child of el with the tag; "" if none or if it is empty
ChildText(el, tag) ==
    IF Positions(el, tag) = {} THEN << >>
    ELSE LET t == el.kids[FirstPos(el, tag)].text IN IF t = << >> THEN << >> ELSE t[1]

ChannelIsChild == WellFormed /\ Positions(Root, "channel") # {}
TheChannel == Root.kids[FirstPos(Root, "channel")]

\* an element with the tag occurs in el's subtree, el included
RECURSIVE Occurs(_, _)
Occurs(el, tag) ==
    \/ el.tag = tag
    \/ \E i \in 1..Len(el.kids) : Occurs(el.kids[i], tag)

OccursBelow(el, tag) == \E i \in 1..Len(el.kids) : Occurs(el.kids[i], tag)

\* the item elements directly under the channel, in document order
RECURSIVE Only(_, _)
Only(kids, tag) ==
    IF kids = << >> THEN << >>
    ELSE (IF Head(kids).tag = tag THEN <<Head(kids)>> ELSE << >>) \o Only(Tail(kids), tag)

SourceItems == Only(TheChannel.kids, "item")
TotalItems == Len(SourceItems)

\* what entity decoding makes of the texts the documents carry
ExpectedDecoded(s) ==
    IF s = <<"&lt;", "\"">> THEN <<"<", "\"">> ELSE s

\* reading a JSON text back
JsonUnescapeTok(t) ==
    CASE t = "\\\"" -> "\""
      [] t = "\\\\" -> "\\"
      [] OTHER -> t

JsonKeys(members) == {members[i][1] : i \in 1..Len(members)}
JsonGet(members, k) == members[CHOOSE i \in 1..Len(members) : members[i][1] = k][2]
JsonStr(members, k) ==
    LET v == JsonGet(members, k) IN [i \in 1..Len(v.enc) |-> JsonUnescapeTok(v.enc[i])]
JsonItems == JsonGet(result[1].value, "items").elems

\* the lines of a text result
Lines == result[1].value
IsTitleLine(l) == l # << >> /\ l[1] = "\nTitle: "
TitleLines == {i \in 1..Len(Lines) : IsTitleLine(Lines[i])}

RenderedCount == IF argv.json THEN Len(JsonItems) ELSE Cardinality(TitleLines)
HeaderCount == Len(Lines) - 6 * RenderedCount

ItemTag(key) ==
    CASE key = "Title" -> "title"
      [] key = "Author" -> "author"
      [] key = "PubDate" -> "pubDate"
      [] key = "Link" -> "link"
      [] key = "Category" -> "category"
      [] key = "Description" -> "description"

Decoding(key) == key \in {"Title", "Description"}

\* the text line item el gives for key
ExpectedItemLine(el, key) ==
    <<(IF key = "Title" THEN "\nTitle: " ELSE key \o ": ")>>
        \o (IF Decoding(key) THEN ExpectedDecoded(ChildText(el, ItemTag(key)))
            ELSE ChildText(el, ItemTag(key)))

-----------------------------------------------------------------------------
(* Properties *)

\* C1: whenever rss_parser returns, the number of rendered items is
\* min(limit, N) for limit >= 0, N for no limit, and 0 for limit < 0,
\* N being the number of item elements under the channel.
C1_RenderedCountFollowsLimit ==
    Returned =>
        RenderedCount =
            (IF argv.limit = None THEN TotalItems
             ELSE IF argv.limit[1] >= 0 THEN Min(argv.limit[1], TotalItems)
             ELSE 0)

\* the value a source channel supplied for an optional field ("" if none)
Supplied(field) ==
    IF field = "Categories"
    THEN LET cats == Only(TheChannel.kids, "category")
         IN  Join([i \in 1..Len(cats) |-> cats[i].text[1]], <<", ">>)
    ELSE ChildText(TheChannel,
                   CASE field = "LastBuildDate" -> "lastBuildDate"
                     [] field = "PubDate" -> "pubDate"
                     [] field = "Language" -> "language"
                     [] field = "ManagingEditor" -> "managingEditor")

RECURSIVE ExpectedFieldLines(_)
ExpectedFieldLines(fields) ==
    IF fields = << >> THEN << >>
    ELSE (IF Supplied(Head(fields)) # << >>
          THEN << <<Head(fields), ": ">> \o Supplied(Head(fields)) >>
          ELSE << >>)
         \o ExpectedFieldLines(Tail(fields))

\* C2: in text mode the lines between the three header lines and the first
\* item are exactly the lines "<FieldName>: <value>" of the optional channel
\* fields the source supplied a non-empty value for, in the order
\* LastBuildDate, PubDate, Language, ManagingEditor, Categories.
C2_OptionalFieldLines ==
    TextMode =>
        SubSeq(Lines, 4, HeaderCount) = ExpectedFieldLines(TextFields)

\* C3: on a well-formed document with a channel (here: directly under the
\* root, where the code looks for it) rss_parser does not raise, and with
\* no limit it renders as many items as the channel has item elements.
C3_ExtractionNeverRaises ==
    (Ran /\ ChannelIsChild) =>
        /\ result[1].kind = "return"
        /\ argv.limit = None => RenderedCount = TotalItems

MissingChannelReported ==
    /\ Raised
    /\ "cause" \in DOMAIN result[1]
    /\ result[1].cause = [exc |-> "ValueError", msg |-> MissingChannelMsg]

\* C4 as stated: a channel element anywhere below the root is found, so a
\* missing channel is not reported.
C4_ChannelAnywhereIsFound ==
    (Ran /\ WellFormed /\ OccursBelow(Root, "channel")) => ~MissingChannelReported

\* C4 amended: the channel is looked for among the direct children of the
\* root only: on a well-formed document a missing channel is reported exactly
\* when no direct child of the root is named channel, also when a channel
\* element occurs deeper.
C4_ChannelIsDirectChild ==
    (Ran /\ WellFormed) => (MissingChannelReported <=> ~ChannelIsChild)

C4_Witness ==
    /\ Ran /\ WellFormed
    /\ OccursBelow(Root, "channel")
    /\ ~ChannelIsChild
    /\ MissingChannelReported

\* C5: on a well-formed document without any channel element rss_parser
\* returns nothing, in either mode and for any limit: it raises
\* UnhandledException whose cause is the missing-channel error.
C5_NoChannelRaises ==
    (Ran /\ WellFormed /\ ~Occurs(Root, "channel")) =>
        /\ result[1].kind = "raise"
        /\ result[1].exc = "UnhandledException"
        /\ MissingChannelReported
        /\ stdout = None

C5_Witness ==
    /\ Ran /\ WellFormed /\ ~Occurs(Root, "channel")
    /\ Root.kids # << >>
    /\ argv.json /\ argv.limit # None
    /\ MissingChannelReported

\* C6: a JSON result has exactly the top-level keys title, link, description
\* (strings) and items (array), none of the optional channel fields, and
\* every element of items has exactly the six keys Title .. Description, each
\* a string, empty when the item has no such child or the child has no text.
C6_JsonShape ==
    JsonMode =>
        LET top == result[1].value
        IN  /\ JsonKeys(top) = {"title", "link", "description", "items"}
            /\ Len(top) = 4
            /\ \A k \in {"title", "link", "description"} : JsonGet(top, k).type = "string"
            /\ JsonGet(top, "items").type = "array"
            /\ \A n \in 1..Len(JsonItems) :
                 /\ JsonKeys(JsonItems[n]) = {ItemKeys[i] : i \in 1..Len(ItemKeys)}
                 /\ Len(JsonItems[n]) = 6
                 /\ \A k \in JsonKeys(JsonItems[n]) :
                      /\ JsonGet(JsonItems[n], k).type = "string"
                      /\ (\/ Positions(SourceItems[n], ItemTag(k)) = {}
                          \/ SourceItems[n].kids[FirstPos(SourceItems[n], ItemTag(k))].text = None)
                         => JsonStr(JsonItems[n], k) = << >>

C6_Witness ==
    /\ JsonMode
    /\ Supplied("Language") # << >>
    /\ Supplied("Categories") # << >>
    /\ Len(JsonItems) >= 1
    /\ Positions(SourceItems[1], "title") = {}

C6_WitnessEmptyChild ==
    /\ JsonMode
    /\ Len(JsonItems) >= 1
    /\ Positions(SourceItems[1], "category") # {}
    /\ SourceItems[1].kids[FirstPos(SourceItems[1], "category")].text = None
    /\ Len(SourceItems[1].kids) = 2

\* C7: main ends with status 0 when the feed was fetched, parsed and printed,
\* and with status 1 when the source is missing, when fetching fails and when
\* rss_parser raises.
C7_ExitStatus ==
    pc = "done" =>
        status[1].code =
            (IF ~Truthy(argv.source) THEN 1
             ELSE IF xml = None THEN 1
             ELSE IF Raised THEN 1
             ELSE 0)

\* C8: text output carries the channel title and description and every
\* item's title and description entity-decoded, JSON output carries them as
\* extracted; the channel link and every item's author, pubDate, link and
\* category are carried as extracted in both modes.
C8_DecodingOnlyInText ==
    /\ TextMode =>
         /\ Lines[1] = <<"Feed: ">> \o ExpectedDecoded(ChildText(TheChannel, "title"))
         /\ Lines[2] = <<"Link: ">> \o ChildText(TheChannel, "link")
         /\ Lines[3] = <<"Description: ">> \o ExpectedDecoded(ChildText(TheChannel, "description"))
         /\ \A n \in 1..RenderedCount : \A i \in 1..6 :
               Lines[HeaderCount + 6 * (n - 1) + i] = ExpectedItemLine(SourceItems[n], ItemKeys[i])
    /\ JsonMode =>
         /\ JsonStr(result[1].value, "title") = ChildText(TheChannel, "title")
         /\ JsonStr(result[1].value, "link") = ChildText(TheChannel, "link")
         /\ JsonStr(result[1].value, "description") = ChildText(TheChannel, "description")
         /\ \A n \in 1..RenderedCount : \A i \in 1..6 :
               JsonStr(JsonItems[n], ItemKeys[i]) = ChildText(SourceItems[n], ItemTag(ItemKeys[i]))

HasEntity(el, tag) == ChildText(el, tag) = EntityText[1]

C8_Witness ==
    /\ TextMode
    /\ HasEntity(TheChannel, "title")
    /\ HasEntity(TheChannel, "link")

C8_WitnessItemText ==
    /\ TextMode
    /\ RenderedCount >= 1
    /\ HasEntity(SourceItems[1], "description")
    /\ HasEntity(SourceItems[1], "author")

C8_WitnessJson ==
    /\ JsonMode
    /\ HasEntity(TheChannel, "title")
    /\ RenderedCount >= 1
    /\ HasEntity(SourceItems[1], "title")

\* C9: a call of rss_parser either returns a complete result or raises
\* UnhandledException carrying the original error; no other error kind
\* leaves it, and nothing is returned (or printed) when it fails.
C9_ReturnOrUnhandled ==
    Ran =>
        \/ /\ result[1].kind = "return"
           /\ DOMAIN result[1] = {"kind", "value"}
           /\ IF argv.json
              THEN Len(result[1].value) = 4 /\ Len(JsonItems) = RenderedCount
              ELSE HeaderCount >= 3 /\ Len(Lines) = HeaderCount + 6 * RenderedCount
        \/ /\ result[1].kind = "raise"
           /\ result[1].exc = "UnhandledException"
           /\ DOMAIN result[1] = {"kind", "exc", "cause"}
           /\ result[1].cause.exc =
                 (IF ~WellFormed THEN "ParseError"
                  ELSE IF ~ChannelIsChild THEN "ValueError"
                  ELSE "TypeError")
           /\ stdout = None

C9_WitnessMalformed == Raised /\ ~WellFormed /\ result[1].exc = "UnhandledException"

C9_WitnessFault ==
    /\ Raised /\ ChannelIsChild
    /\ result[1].exc = "UnhandledException"
    /\ result[1].cause.exc = "TypeError"

C9_WitnessReturn == Returned /\ RenderedCount = 2 /\ ~argv.json

\* C10: the rendered items are the first items of the channel, in document
\* order, whatever the limit; in text mode every rendered item gives six
\* consecutive lines "\nTitle:", "Author:", "PubDate:", "Link:",
\* "Category:", "Description:", all of them after the channel header lines.
C10_RenderedItemsArePrefix ==
    Returned =>
        /\ RenderedCount <= TotalItems
        /\ IF argv.json
           THEN \A n \in 1..RenderedCount : \A i \in 1..6 :
                   JsonStr(JsonItems[n], ItemKeys[i]) = ChildText(SourceItems[n], ItemTag(ItemKeys[i]))
           ELSE /\ HeaderCount >= 3
                /\ \A i \in 1..HeaderCount : ~IsTitleLine(Lines[i])
                /\ \A n \in 1..RenderedCount : \A i \in 1..6 :
                      Lines[HeaderCount + 6 * (n - 1) + i]
                          = ExpectedItemLine(SourceItems[n], ItemKeys[i])

C10_Witness ==
    /\ TextMode
    /\ TotalItems = 2
    /\ RenderedCount = 1
    /\ SourceItems[1] # SourceItems[2]
    /\ HeaderCount > 3

C10_WitnessThree ==
    /\ TextMode
    /\ TotalItems = 3
    /\ RenderedCount = 2
    /\ SourceItems[1] # SourceItems[2]
    /\ SourceItems[2] # SourceItems[3]

C10_WitnessNegative ==
    /\ JsonMode
    /\ argv.limit # None /\ argv.limit[1] < 0
    /\ RenderedCount = 1
    /\ TotalItems = 2
    /\ SourceItems[1] # SourceItems[2]

====
